---- MODULE Spec2Model ----
(***************************************************************************)
(* Model of the bank-statement pipeline of app.py: amount parsing and      *)
(* formatting, date normalisation, table reconstruction (processar_pdf),   *)
(* the Debit/Credit classifier, the inclusion filter and the summary step  *)
(* of main(), and the Streamlit session that drives them.                  *)
(*                                                                         *)
(* Text is modelled as a sequence of one-character strings, so that the    *)
(* string operations of the code (replace, split, join, slicing) are       *)
(* computed and not assumed.  A missing cell (NaN / NaT) is the value NaN. *)
(* Amounts are exact fixed-point numbers counted in hundredths.            *)
(***************************************************************************)
EXTENDS Integers, Sequences, FiniteSets, TLC

VARIABLES
    view,           \* summary step: the view handed to it (df_para_exibir_*)
    coluna,         \* summary step: its amount column, "Debito" or "Credito"
    extrato_final,  \* summary step: the Final Report Table, None before it ran
    avisos,         \* summary step: its st.warning messages
    valor,          \* amount round trip: the amount x, in hundredths
    texto,          \* amount round trip: the text the program renders for x
    relido,         \* amount round trip: the number the program reads back
    entrada,        \* year conversion: the cell handed to the converter
    convertida,     \* year conversion: what the converter returns for it
    reconvertida,   \* year conversion: what it returns for its own result
    tables,         \* processar_pdf: the grids the table locator returns
    etapa,          \* processar_pdf: "inicio", "anexado" (after the loop over
                    \* the grids) or "retornou"
    leitura,        \* processar_pdf: "pendente", "ok", or "falhou" when the page
                    \* count or the table locator raised
    anexado,        \* processar_pdf: the working ledger the loop has appended
    erros,          \* the st.error messages of the run
    df_extrato,     \* what processar_pdf returned: st.session_state["df_extrato"]
    uploaded_file,  \* the file held by st.file_uploader: None or its grids
    glossary_terms, \* the lines of the glossary file
    operacao_selecionada,       \* st.session_state["operacao_selecionada"]
    df_operacao,                \* session keys df_debito and df_credito
    df_operacao_gloss,          \* df_debito_gloss and df_credito_gloss
    df_operacao_gloss_filtrado, \* df_debito_gloss_filtrado and df_credito_..._filtrado
    excecao,        \* the last script run ended in an uncaught exception
    historia        \* per operation, what the form submissions so far did, in
                    \* their order (a record of the runs, not a session key)

varsSummary == <<view, coluna, extrato_final, avisos>>

varsAmount == <<valor, texto, relido>>

varsData == <<entrada, convertida, reconvertida>>

varsRecon == <<tables, etapa, leitura, anexado, erros, df_extrato>>

varsSessao ==
    <<uploaded_file, glossary_terms, operacao_selecionada, df_operacao,
      df_operacao_gloss, df_operacao_gloss_filtrado, excecao, historia>>

vars == <<varsSummary, varsAmount, varsData, varsRecon, varsSessao>>

(***************************************************************************)
(* Bounds of the specifications.                                           *)
(***************************************************************************)
\* the longest view of the summary specification
MaxLinhas == 3

\* the most grid rows and grid boundaries of a document of the reconstruction
\* specification
MaxItens == 5

\* the largest amount, in hundredths, of the dense range of the round trip
MaxValor == 2000

\* the segments of a cell of the year-conversion specification
MaxSegmentos == 4

(***************************************************************************)
(* Values that are not text.                                               *)
(***************************************************************************)
\* np.nan / pd.NaT in a cell: no character sequence equals it
NaN == <<"nan">>

\* Python's None in a session slot or a result; a slot that holds the value
\* x is Some(x), and Val gives x back
None == <<>>

Some(x) == <<x>>

Val(s) == s[1]

(***************************************************************************)
(* Text helpers.                                                           *)
(***************************************************************************)
Digitos == <<"0", "1", "2", "3", "4", "5", "6", "7", "8", "9">>

EhDigito(c) == \E i \in 1..10 : Digitos[i] = c

ValorDigito(c) == (CHOOSE i \in 1..10 : Digitos[i] = c) - 1

TodosDigitos(s) == \A i \in 1..Len(s) : EhDigito(s[i])

\* int(s) for a sequence of digits (0 for the empty sequence)
RECURSIVE NumeroDe(_)
NumeroDe(s) ==
    IF s = <<>> THEN 0
    ELSE 10 * NumeroDe(SubSeq(s, 1, Len(s) - 1)) + ValorDigito(s[Len(s)])

\* str(n) for n >= 0
RECURSIVE TextoDe(_)
TextoDe(n) ==
    IF n < 10 THEN <<Digitos[n + 1]>>
    ELSE TextoDe(n \div 10) \o <<Digitos[(n % 10) + 1]>>

\* s.replace(a, "") for a one-character a
Remover(s, a) == SelectSeq(s, LAMBDA c : c # a)

\* s.replace(a, b) for one-character a and b
Trocar(s, a, b) == [i \in 1..Len(s) |-> IF s[i] = a THEN b ELSE s[i]]

\* positions of the character a in s
Posicoes(s, a) == {i \in 1..Len(s) : s[i] = a}

\* s.split(a): the segments between the occurrences of a
RECURSIVE Split(_, _)
Split(s, a) ==
    IF Posicoes(s, a) = {} THEN <<s>>
    ELSE LET p == CHOOSE i \in Posicoes(s, a) : \A j \in Posicoes(s, a) : i <= j
         IN  <<SubSeq(s, 1, p - 1)>> \o Split(SubSeq(s, p + 1, Len(s)), a)

\* a.join(partes)
RECURSIVE Join(_, _)
Join(partes, a) ==
    IF partes = <<>> THEN <<>>
    ELSE IF Len(partes) = 1 THEN partes[1]
    ELSE partes[1] \o <<a>> \o Join(Tail(partes), a)

(***************************************************************************)
(* Amounts.                                                                *)
(***************************************************************************)
\* hundredths per unit: the fixed-point scale of every amount of the model
Centavos == 100

\* a float that is not a number
NaoNumero == [ok |-> FALSE, v |-> 0]

Numero(n) == [ok |-> TRUE, v |-> n]

\* pd.to_numeric(s, errors='coerce') of one cell: [sign] digits [. digits] is
\* read as a number, anything else (and a missing cell) is coerced to NaN.
\* Cells carry at most two fractional digits.
to_numeric(s) ==
    IF s = NaN \/ s = <<>> THEN NaoNumero
    ELSE
    LET sinal == IF s[1] = "-" THEN -1 ELSE 1
        corpo == IF s[1] \in {"-", "+"} THEN Tail(s) ELSE s
        partes == Split(corpo, ".")
        int == partes[1]
        frac == IF Len(partes) = 2 THEN partes[2] ELSE <<>>
    IN  IF /\ Len(partes) <= 2
           /\ TodosDigitos(int)
           /\ TodosDigitos(frac)
           /\ Len(int) + Len(frac) > 0
           /\ Len(frac) <= 2
        THEN Numero(sinal * (NumeroDe(int) * Centavos
                             + (IF Len(frac) = 0 THEN 0
                                ELSE IF Len(frac) = 1 THEN 10 * NumeroDe(frac)
                                ELSE NumeroDe(frac))))
        ELSE NaoNumero

\* the amount-parsing rule of the program, applied to one cell:
\* .str.replace('.', '').str.replace(',', '.') then pd.to_numeric(coerce);
\* the .str accessor leaves a missing cell missing
ParseValor(s) ==
    IF s = NaN THEN NaoNumero
    ELSE to_numeric(Trocar(Remover(s, "."), ",", "."))

Abs(n) == IF n < 0 THEN -n ELSE n

\* Series.abs().sum(): NaN is skipped by sum
RECURSIVE SomaAbs(_)
SomaAbs(nums) ==
    IF nums = <<>> THEN 0
    ELSE (IF nums[1].ok THEN Abs(nums[1].v) ELSE 0) + SomaAbs(Tail(nums))

\* f"{x:.2f}" for x >= 0 counted in hundredths
Formato2f(n) ==
    TextoDe(n \div Centavos) \o <<".">>
        \o <<Digitos[((n % Centavos) \div 10) + 1], Digitos[(n % 10) + 1]>>

(***************************************************************************)
(* Dates.                                                                  *)
(***************************************************************************)
\* pd.NaT
NaT == [ok |-> FALSE, ano |-> 0, mes |-> 0, dia |-> 0]

\* days of a month; years 1969..2068 are leap exactly when divisible by 4
DiasNoMes(mes, ano) ==
    IF mes = 2 THEN (IF ano % 4 = 0 THEN 29 ELSE 28)
    ELSE IF mes \in {4, 6, 9, 11} THEN 30 ELSE 31

\* pd.to_datetime(s, format="%d/%m/%y", errors='coerce') of one cell:
\* day and month of one or two digits, a year of exactly two digits with
\* the pivot of %y (69..99 -> 19xx, 00..68 -> 20xx), a real calendar day;
\* everything else, and a missing cell, is NaT
to_datetime(s) ==
    IF s = NaN THEN NaT
    ELSE
    LET partes == Split(s, "/")
    IN  IF Len(partes) # 3 THEN NaT
        ELSE
        LET d == partes[1]
            m == partes[2]
            y == partes[3]
        IN  IF /\ Len(d) \in {1, 2} /\ TodosDigitos(d)
               /\ Len(m) \in {1, 2} /\ TodosDigitos(m)
               /\ Len(y) = 2 /\ TodosDigitos(y)
            THEN LET dia == NumeroDe(d)
                     mes == NumeroDe(m)
                     ano == IF NumeroDe(y) >= 69 THEN 1900 + NumeroDe(y)
                            ELSE 2000 + NumeroDe(y)
                 IN  IF mes \in 1..12 /\ dia >= 1 /\ dia <= DiasNoMes(mes, ano)
                     THEN [ok |-> TRUE, ano |-> ano, mes |-> mes, dia |-> dia]
                     ELSE NaT
            ELSE NaT

\* the order of two timestamps that are not NaT
Antes(a, b) ==
    \/ a.ano < b.ano
    \/ a.ano = b.ano /\ a.mes < b.mes
    \/ a.ano = b.ano /\ a.mes = b.mes /\ a.dia < b.dia

DoisDigitos(n) == <<Digitos[((n % 100) \div 10) + 1], Digitos[(n % 10) + 1]>>

\* Series.dt.strftime("%d/%m/%y") of one cell, then fillna(""): NaT gives NaN,
\* which fillna turns into the empty text
strftime_fillna(t) ==
    IF t.ok THEN DoisDigitos(t.dia) \o <<"/">> \o DoisDigitos(t.mes)
                 \o <<"/">> \o DoisDigitos(t.ano)
    ELSE <<>>

(***************************************************************************)
(* Data frames: a set of column names and a sequence of rows, each row a   *)
(* record over the columns.  pd.DataFrame() has neither.                   *)
(***************************************************************************)
DataFrame(cols, rows) == [cols |-> cols, rows |-> rows]

DataFrameVazio == DataFrame({}, <<>>)

\* df.empty: no rows or no columns
Empty(df) == df.rows = <<>> \/ df.cols = {}

\* df.drop(columns=[c for c in drop if c in df.columns])
DropColumns(df, drop) ==
    DataFrame(df.cols \ drop,
              [i \in 1..Len(df.rows) |->
                  [c \in df.cols \ drop |-> df.rows[i][c]]])

(***************************************************************************)
(* The summary step of main(): "Apresentar Tarifas".                       *)
(***************************************************************************)
ValorTotalTxt ==
    <<"V", "a", "l", "o", "r", " ", "T", "o", "t", "a", "l", " ", "(", "R", "$", ")">>

EmDobroTxt ==
    <<"E", "m", " ", "d", "o", "b", "r", "o", " ", "(", "R", "$", ")">>

\* the sum taken without .abs()
RECURSIVE SomaComSinal(_)
SomaComSinal(nums) ==
    IF nums = <<>> THEN 0
    ELSE (IF nums[1].ok THEN nums[1].v ELSE 0) + SomaComSinal(Tail(nums))

total_sem_abs(df, col) ==
    Abs(SomaComSinal([i \in 1..Len(df.rows) |-> ParseValor(df.rows[i][col])]))

\* pd.to_numeric(df[col].str.replace(...).str.replace(...), coerce).abs().sum()
total_da_coluna(df, col) ==
    SomaAbs([i \in 1..Len(df.rows) |-> ParseValor(df.rows[i][col])])

total_debitos(df) == total_da_coluna(df, "Debito")

total_creditos(df) == total_da_coluna(df, "Credito")

\* one synthesized row: empty Data and Docto., the label, the rendered amount
LinhaSintese(rotulo, quantia, col) ==
    [c \in {"Data", "Historico", "Docto", col} |->
        CASE c = "Data" -> <<>>
          [] c = "Historico" -> rotulo
          [] c = "Docto" -> <<>>
          [] OTHER -> Formato2f(quantia)]

valor_total(total, col) == LinhaSintese(ValorTotalTxt, total, col)

em_dobro(total, col) == LinhaSintese(EmDobroTxt, total * 2, col)

\* pd.concat([df, valor_total, em_dobro], ignore_index=True)
Concatenado(df, col) ==
    LET total == total_da_coluna(df, col)
    IN  df.rows \o <<valor_total(total, col), em_dobro(total, col)>>

\* the ascending enumeration of a finite set of naturals
RECURSIVE EmOrdem(_)
EmOrdem(S) ==
    IF S = {} THEN <<>>
    ELSE LET m == CHOOSE i \in S : \A j \in S : i <= j
         IN  <<m>> \o EmOrdem(S \ {m})

\* the sort with na_position="first"
sort_values_na_first(datas) ==
    LET n == Len(datas)
        com == {i \in 1..n : datas[i].ok}
        sem == EmOrdem((1..n) \ com)
        k == Cardinality(com)
    IN  {sem \o p : p \in
            {q \in [1..k -> com] :
                /\ \A i, j \in 1..k : i # j => q[i] # q[j]
                /\ \A i \in 1..k : \A j \in 1..k :
                       i < j => ~Antes(datas[q[j]], datas[q[i]])}}

\* DataFrame.sort_values(by="Data"), default kind="quicksort" and
\* na_position="last": the rows with a timestamp come first in ascending
\* order, rows with equal timestamps in an order the sort does not fix; the
\* NaT rows follow in their original order.  The result is the set of the
\* row orders (sequences of row positions) the sort may return.
sort_values(datas) ==
    LET n == Len(datas)
        com == {i \in 1..n : datas[i].ok}
        sem == EmOrdem((1..n) \ com)
        k == Cardinality(com)
    IN  {p \o sem : p \in
            {q \in [1..k -> com] :
                /\ \A i, j \in 1..k : i # j => q[i] # q[j]
                /\ \A i \in 1..k : \A j \in 1..k :
                       i < j => ~Antes(datas[q[j]], datas[q[i]])}}

\* the parsed Data column of the concatenated frame
DatasDe(rows) == [i \in 1..Len(rows) |-> to_datetime(rows[i].Data)]

\* the Final Report Table for the row order ord: Data re-rendered (NaT as
\* ""), index reset, and the Data of every row labelled as a total emptied
extrato_final_de(df, col, ord) ==
    LET rows == Concatenado(df, col)
        datas == DatasDe(rows)
    IN  DataFrame(df.cols,
            [i \in 1..Len(rows) |->
                LET r == rows[ord[i]]
                IN  [r EXCEPT !.Data =
                        IF r.Historico \in {ValorTotalTxt, EmDobroTxt} THEN <<>>
                        ELSE strftime_fillna(datas[ord[i]])]])

extrato_debito_final(df, ord) == extrato_final_de(df, "Debito", ord)

extrato_credito_final(df, ord) == extrato_final_de(df, "Credito", ord)

(***************************************************************************)
(* Table reconstruction: ignorar_tabela, converter_data_para_dois_digitos  *)
(* and processar_pdf.  A grid (table.df) is a non-empty sequence of rows,  *)
(* each row the sequence of its cell texts, all of the same length.        *)
(***************************************************************************)
FoneFacilTxt ==
    <<"F", "o", "n", "e", " ", "F", "a", "c", "i", "l", " ",
      "B", "r", "a", "d", "e", "s", "c", "o">>

BiaTxt ==
    <<"S", "e", " ", "P", "r", "e", "f", "e", "r", "i", "r", ",", " ",
      "f", "a", "l", "e", " ", "c", "o", "m", " ", "a", " ", "B", "I", "A", " ",
      "p", "e", "l", "o">>

InvestFacilTxt ==
    <<"S", "a", "l", "d", "o", " ", "I", "n", "v", "e", "s", "t", " ",
      "F", "a", "c", "i", "l">>

DataTxt == <<"D", "a", "t", "a">>

\* the conversion that keeps the first two characters of the year
converter_data_primeiros_digitos(data) ==
    IF data = NaN \/ data = <<>> THEN data
    ELSE LET partes == Split(data, "/")
         IN  IF Len(partes) = 3 /\ Len(partes[3]) = 4
             THEN Join(<<partes[1], partes[2], SubSeq(partes[3], 1, 2)>>, "/")
             ELSE data

\* a four-character year segment of a three-segment text loses its first two
\* characters; every other text, and a missing or empty cell, is returned as is
converter_data_para_dois_digitos(data) ==
    IF data = NaN \/ data = <<>> THEN data
    ELSE LET partes == Split(data, "/")
         IN  IF Len(partes) = 3 /\ Len(partes[3]) = 4
             THEN Join(<<partes[1], partes[2], SubSeq(partes[3], 3, 4)>>, "/")
             ELSE data

expected_columns == <<"Data", "Historico", "Docto", "Credito", "Debito", "Saldo">>

ColunasExtrato == {expected_columns[i] : i \in 1..Len(expected_columns)}

\* the number of columns of a grid
NumColunas(df) == Len(df[1])

\* check_start = (df == "Data").any(axis=1); df = df[idx + 1:]
AposCabecalho(df) ==
    LET check_start == {i \in 1..Len(df) : \E j \in 1..Len(df[i]) : df[i][j] = DataTxt}
    IN  IF check_start = {} THEN df
        ELSE LET idx == CHOOSE i \in check_start : \A j \in check_start : i <= j
             IN  SubSeq(df, idx + 1, Len(df))

\* the check made on the rows that follow the header row only
ignorar_tabela_sem_cabecalho(df) ==
    \E i \in 1..Len(AposCabecalho(df)) : \E j \in 1..Len(AposCabecalho(df)[i]) :
        AposCabecalho(df)[i][j] \in {FoneFacilTxt, BiaTxt, InvestFacilTxt}

\* True when some cell of some row equals one of the three fixed strings
ignorar_tabela(df) ==
    \E i \in 1..Len(df) : \E j \in 1..Len(df[i]) :
        df[i][j] \in {FoneFacilTxt, BiaTxt, InvestFacilTxt}

\* df.columns = expected_columns: pandas raises ValueError (None here) unless
\* the frame has exactly as many columns as there are names
SetColumns(rows, ncols) ==
    IF ncols = Len(expected_columns)
    THEN Some([i \in 1..Len(rows) |->
                 [c \in ColunasExtrato |->
                     rows[i][CHOOSE k \in 1..Len(expected_columns) :
                                 expected_columns[k] = c]]])
    ELSE None

\* the column check of the loop: with six or more columns the names are set
\* directly; with fewer, df.iloc[:, :6] keeps all of them and the names are set
Renomeada(df) ==
    LET rows == AposCabecalho(df)
        ncols == NumColunas(df)
    IN  IF ncols >= 6 THEN SetColumns(rows, ncols)
        ELSE SetColumns([i \in 1..Len(rows) |->
                            SubSeq(rows[i], 1, IF ncols < 6 THEN ncols ELSE 6)],
                        ncols)

\* the loop over the grids: extrato, which starts with the six columns and
\* no row, after the grids were appended, or None when an iteration raises
RECURSIVE LoopTabelas(_, _)
LoopTabelas(ts, acc) ==
    IF ts = <<>> THEN Some(acc)
    ELSE IF ignorar_tabela(ts[1]) THEN LoopTabelas(Tail(ts), acc)
    ELSE LET r == Renomeada(ts[1])
         IN  IF r = None THEN None
             ELSE LoopTabelas(Tail(ts),
                              DataFrame(ColunasExtrato, acc.rows \o Val(r)))

\* extrato["Data"].replace("", np.nan).ffill(), then
\* .apply(converter_data_para_dois_digitos)
RECURSIVE UltimaData(_, _)
UltimaData(rows, i) ==
    IF rows[i].Data # <<>> THEN rows[i].Data
    ELSE IF i = 1 THEN NaN
    ELSE UltimaData(rows, i - 1)

\* a fill that reaches one row back only, as ffill(limit=1) would
Ffill_um_passo(rows) ==
    [i \in 1..Len(rows) |->
        [rows[i] EXCEPT !.Data =
            IF @ # <<>> THEN @
            ELSE IF i > 1 /\ rows[i - 1].Data # <<>> THEN rows[i - 1].Data
            ELSE NaN]]

Ffill(rows) == [i \in 1..Len(rows) |-> [rows[i] EXCEPT !.Data = UltimaData(rows, i)]]

DatasConvertidas(rows) ==
    [i \in 1..Len(rows) |->
        [rows[i] EXCEPT !.Data = converter_data_para_dois_digitos(@)]]

\* the index of the rows whose Docto., Credito, Debito and Saldo are all ""
linhas_vazias(rows) ==
    {i \in 1..Len(rows) :
        /\ rows[i].Docto = <<>>
        /\ rows[i].Credito = <<>>
        /\ rows[i].Debito = <<>>
        /\ rows[i].Saldo = <<>>}

\* the merge that reads the Historico of the rows as they were before the loop
UnirHistoricoSemAcumular(rows, idxs) ==
    [i \in 1..Len(rows) |->
        IF i > 1 /\ \E k \in 1..Len(idxs) : idxs[k] = i - 1
        THEN [rows[i] EXCEPT !.Historico = rows[i - 1].Historico \o <<" ">> \o @]
        ELSE rows[i]]

\* for idx in linhas_vazias: if idx + 1 < len(extrato):
\*     extrato.at[idx + 1, "Historico"] = at[idx] + " " + at[idx + 1]
RECURSIVE UnirHistorico(_, _)
UnirHistorico(rows, idxs) ==
    IF idxs = <<>> THEN rows
    ELSE LET idx == idxs[1]
         IN  UnirHistorico(
                 IF idx + 1 <= Len(rows)
                 THEN [rows EXCEPT ![idx + 1].Historico =
                          rows[idx].Historico \o <<" ">> \o @]
                 ELSE rows,
                 Tail(idxs))

\* extrato.drop(linhas_vazias).reset_index(drop=True)
Drop(rows, idxs) ==
    LET ficam == EmOrdem((1..Len(rows)) \ idxs)
    IN  [j \in 1..Len(ficam) |-> rows[ficam[j]]]

\* lines 443-460: forward fill, year conversion, merge, drop
Reconstruido(rows) ==
    LET datadas == DatasConvertidas(Ffill(rows))
        vazias == linhas_vazias(datadas)
    IN  Drop(UnirHistorico(datadas, EmOrdem(vazias)), vazias)

\* extrato before the loop: the six columns and no row
ExtratoInicial == DataFrame(ColunasExtrato, <<>>)

\* the reconstruction without the except clause of a failed read
processar_pdf_sem_falha(leu, ts) ==
    LET a == LoopTabelas(ts, ExtratoInicial)
    IN  IF a = None THEN None
        ELSE Some(DataFrame(ColunasExtrato, Reconstruido(Val(a).rows)))

\* processar_pdf: None when reading the pages or locating the tables raises
\* or an iteration of the loop raises, else the ledger
processar_pdf(leu, ts) ==
    IF ~leu THEN None
    ELSE LET a == LoopTabelas(ts, ExtratoInicial)
         IN  IF a = None THEN None
             ELSE Some(DataFrame(ColunasExtrato, Reconstruido(Val(a).rows)))

(***************************************************************************)
(* Cell texts the specifications draw their inputs from.                   *)
(***************************************************************************)
D_010123 == <<"0", "1", "/", "0", "1", "/", "2", "3">>

D_020123 == <<"0", "2", "/", "0", "1", "/", "2", "3">>

D_010199 == <<"0", "1", "/", "0", "1", "/", "9", "9">>

\* not a calendar day: to_datetime coerces it to NaT
D_310223 == <<"3", "1", "/", "0", "2", "/", "2", "3">>

V_10_00 == <<"1", "0", ",", "0", "0">>

V_5_50 == <<"5", ",", "5", "0">>

V_20_00 == <<"2", "0", ",", "0", "0">>

V_30_00 == <<"3", "0", ",", "0", "0">>

V_1234_50 == <<"1", ".", "2", "3", "4", ",", "5", "0">>

V_neg_20_00 == <<"-", "2", "0", ",", "0", "0">>

\* not a number: to_numeric coerces it to NaN
V_abc == <<"a", "b", "c">>

TARIFA_A == <<"T", "A", "R", "I", "F", "A", " ", "A">>

TARIFA_B == <<"T", "A", "R", "I", "F", "A", " ", "B">>

Doc(n) == TextoDe(n)

\* the sequences over S of length at most n
SeqAte(S, n) == UNION {[1..k -> S] : k \in 0..n}

D_010223 == <<"0", "1", "/", "0", "2", "/", "2", "3">>

D_05032023 == <<"0", "5", "/", "0", "3", "/", "2", "0", "2", "3">>

V_7_00 == <<"7", ",", "0", "0">>

PARTE_A == <<"P", "A", "R", "T", "E", " ", "A">>

PARTE_B == <<"P", "A", "R", "T", "E", " ", "B">>

PARTE_C == <<"P", "A", "R", "T", "E", " ", "C">>

HistoricoTxt == <<"H", "i", "s", "t", "o", "r", "i", "c", "o">>

\* grid rows of six cells: two continuation fragments (one carrying a date with
\* a four-digit year), a debit with a date, a credit without one, the header
\* row and a footer row
G_ParteA == <<<<>>, PARTE_A, <<>>, <<>>, <<>>, <<>>>>

G_ParteC == <<D_05032023, PARTE_C, <<>>, <<>>, <<>>, <<>>>>

G_Debito == <<D_010223, PARTE_B, Doc(123), <<>>, V_10_00, <<>>>>

G_Credito == <<<<>>, TARIFA_A, Doc(124), V_5_50, <<>>, <<>>>>

G_Cabecalho == <<DataTxt, HistoricoTxt, <<>>, <<>>, <<>>, <<>>>>

G_Rodape == <<<<>>, FoneFacilTxt, <<>>, <<>>, <<>>, <<>>>>

\* grid rows of five and of seven cells
G_Cinco == <<D_020123, TARIFA_B, Doc(125), <<>>, V_7_00>>

G_Sete == <<D_020123, TARIFA_B, Doc(126), <<>>, V_7_00, <<>>, <<>>>>

\* between two grids of a document
Quebra == <<>>

ItensExemplo ==
    {G_ParteA, G_ParteC, G_Debito, G_Credito, G_Cabecalho, G_Rodape,
     G_Cinco, G_Sete, Quebra}

\* the grids of a sequence of rows and boundaries
RECURSIVE Grades(_)
Grades(itens) ==
    LET q == {i \in 1..Len(itens) : itens[i] = Quebra}
    IN  IF q = {} THEN <<itens>>
        ELSE LET p == CHOOSE i \in q : \A j \in q : i <= j
             IN  <<SubSeq(itens, 1, p - 1)>> \o Grades(SubSeq(itens, p + 1, Len(itens)))

\* every grid has a row, and its rows have the same number of cells
GradesValidas(ts) ==
    \A t \in 1..Len(ts) :
        /\ ts[t] # <<>>
        /\ \A i \in 1..Len(ts[t]) : Len(ts[t][i]) = Len(ts[t][1])

\* the documents of the reconstruction specification: none, and the grids of
\* up to n rows and boundaries
Documentos(n) ==
    {<<>>} \cup
    {Grades(itens) : itens \in
        {it \in SeqAte(ItensExemplo, n) : it # <<>> /\ GradesValidas(Grades(it))}}

\* a row of a Debit or Credit view: Data, Historico, Docto. and the amount column
LinhaView(d, h, doc, col, v) ==
    [c \in {"Data", "Historico", "Docto", col} |->
        CASE c = "Data" -> d
          [] c = "Historico" -> h
          [] c = "Docto" -> doc
          [] OTHER -> v]

\* the rows the views of the summary specification are built from
LinhasExemplo(col) ==
    { LinhaView(D_020123, TARIFA_A, Doc(123), col, V_20_00),
      LinhaView(D_010123, TARIFA_A, Doc(124), col, V_30_00),
      LinhaView(D_010123, TARIFA_B, Doc(125), col, V_10_00),
      LinhaView(D_020123, TARIFA_B, Doc(126), col, V_5_50),
      LinhaView(NaN, TARIFA_A, Doc(127), col, V_1234_50),
      LinhaView(D_310223, TARIFA_B, Doc(128), col, V_neg_20_00),
      LinhaView(D_010199, TARIFA_A, Doc(129), col, V_abc) }

ColunasView(col) == {"Data", "Historico", "Docto", col}

(***************************************************************************)
(* The classifier, the glossary filter and the inclusion filter.           *)
(***************************************************************************)
\* the rows whose cell of column col is neither missing nor ""
ComValor(df, col) ==
    SelectSeq(df.rows, LAMBDA r : r[col] # NaN /\ r[col] # <<>>)

\* the debit view that keeps every row of the ledger
filtrar_debitos_todas(df) == DropColumns(df, {"Credito", "Saldo"})

filtrar_debitos(df) ==
    DropColumns(DataFrame(df.cols, ComValor(df, "Debito")), {"Credito", "Saldo"})

filtrar_creditos(df) ==
    DropColumns(DataFrame(df.cols, ComValor(df, "Credito")), {"Debito", "Saldo"})

\* the columns of the other operation, dropped from the views of op
OutrasColunas(op) ==
    IF op = "Debito" THEN {"Credito", "Saldo"} ELSE {"Debito", "Saldo"}

filtrar_operacao(op, df) ==
    IF op = "Debito" THEN filtrar_debitos(df) ELSE filtrar_creditos(df)

PIX == <<"P", "I", "X">>

\* the score of fuzzywuzzy's default scorer (WRatio, 0..100) for a description
\* and a glossary term of the session specification: 100 for equal texts, 88
\* for "TARIFA A" against "TARIFA B", 30 for "PIX" against either
Pontuacao(text, termo) ==
    IF text = termo THEN 100
    ELSE IF {text, termo} = {TARIFA_A, TARIFA_B} THEN 88
    ELSE 30

\* process.extractOne(text, glossary)[1]: the best score over the glossary
MelhorPontuacao(text, glossary) ==
    LET ps == {Pontuacao(text, glossary[i]) : i \in 1..Len(glossary)}
    IN  CHOOSE m \in ps : \A q \in ps : q <= m

\* the match that wants a score above the threshold
match_glossary_estrito(text, glossary, threshold) ==
    IF glossary = <<>> \/ text = <<>> THEN FALSE
    ELSE MelhorPontuacao(text, glossary) > threshold

match_glossary(text, glossary, threshold) ==
    IF glossary = <<>> \/ text = <<>> THEN FALSE
    ELSE MelhorPontuacao(text, glossary) >= threshold

\* carregar_glossario: the lines of the glossary file, or no term (and an
\* error message) when the file cannot be opened or read
carregar_glossario(lido, linhas) == IF lido THEN linhas ELSE <<>>

filtrar_por_glossario(df, glossary, threshold) ==
    IF Empty(df) \/ glossary = <<>> THEN DataFrameVazio
    ELSE DataFrame(df.cols,
             SelectSeq(df.rows,
                 LAMBDA r : match_glossary(r.Historico, glossary, threshold)))

\* sorted(df["Historico"].unique()), as a set
valores_unicos(df) == {df.rows[i].Historico : i \in 1..Len(df.rows)}

\* the rows whose Historico was not selected
df_filtrado_excluindo(base, selected) ==
    DataFrame(base.cols, SelectSeq(base.rows, LAMBDA r : r.Historico \notin selected))

\* df_base[df_base["Historico"].isin(selected)].reset_index(drop=True)
df_filtrado(base, selected) ==
    DataFrame(base.cols, SelectSeq(base.rows, LAMBDA r : r.Historico \in selected))

\* what "Confirmar Inclusao" stores for a selection
Inclusao(base, selected) ==
    IF selected # {} THEN df_filtrado(base, selected) ELSE DataFrameVazio

(***************************************************************************)
(* Specification SpecSummary: the summary step on every bounded view.      *)
(***************************************************************************)
SemRoundTrip == valor = 0 /\ texto = None /\ relido = None

SemData == entrada = <<>> /\ convertida = None /\ reconvertida = None

SemRecon ==
    /\ tables = <<>> /\ etapa = "inicio" /\ leitura = "pendente"
    /\ anexado = None /\ erros = 0 /\ df_extrato = None

SemSummary == view = None /\ coluna = "" /\ extrato_final = None /\ avisos = 0

Operacoes == {"Debito", "Credito"}

Nenhum == [op \in Operacoes |-> None]

\* no form was submitted yet
SemHistoria ==
    [op \in Operacoes |->
        [classificou |-> FALSE, filtrou |-> FALSE, confirmou |-> FALSE]]

SemSessao ==
    /\ uploaded_file = None /\ glossary_terms = <<>>
    /\ operacao_selecionada = None
    /\ df_operacao = Nenhum
    /\ df_operacao_gloss = Nenhum
    /\ df_operacao_gloss_filtrado = Nenhum
    /\ excecao = FALSE
    /\ historia = SemHistoria

InitSummary ==
    /\ coluna \in {"Debito", "Credito"}
    /\ view \in {DataFrame(ColunasView(coluna), rs) :
                    rs \in SeqAte(LinhasExemplo(coluna), MaxLinhas)}
    /\ extrato_final = None
    /\ avisos = 0
    /\ SemRoundTrip
    /\ SemData
    /\ SemRecon
    /\ SemSessao

\* "Apresentar Tarifas para Debitos" on the view
ApresentarTarifasDebito ==
    /\ coluna = "Debito"
    /\ extrato_final = None
    /\ avisos = 0
    /\ IF ~Empty(view)
       THEN /\ \E ord \in sort_values(DatasDe(Concatenado(view, "Debito"))) :
                   extrato_final' = Some(extrato_debito_final(view, ord))
            /\ UNCHANGED avisos
       ELSE \* "Nao ha extrato final ... para apresentar": a warning, no report
            /\ avisos' = avisos + 1
            /\ UNCHANGED extrato_final
    /\ UNCHANGED <<view, coluna, varsAmount, varsData, varsRecon, varsSessao>>

\* "Apresentar Tarifas para Creditos" on the view
ApresentarTarifasCredito ==
    /\ coluna = "Credito"
    /\ extrato_final = None
    /\ avisos = 0
    /\ IF ~Empty(view)
       THEN /\ \E ord \in sort_values(DatasDe(Concatenado(view, "Credito"))) :
                   extrato_final' = Some(extrato_credito_final(view, ord))
            /\ UNCHANGED avisos
       ELSE \* "Nao ha extrato final ... para apresentar": a warning, no report
            /\ avisos' = avisos + 1
            /\ UNCHANGED extrato_final
    /\ UNCHANGED <<view, coluna, varsAmount, varsData, varsRecon, varsSessao>>

NextSummary == ApresentarTarifasDebito \/ ApresentarTarifasCredito

SpecSummary == InitSummary /\ [][NextSummary]_vars

(***************************************************************************)
(* Specification SpecAmount: an amount is rendered for an amount cell and  *)
(* read back with the amount-parsing rule.                                 *)
(***************************************************************************)
Valores == (0..MaxValor) \cup {1550, 123450, 1000000}

InitAmount ==
    /\ valor \in Valores
    /\ texto = None
    /\ relido = None
    /\ SemData
    /\ SemSummary
    /\ SemRecon
    /\ SemSessao

\* the amount cell of a synthesized row: f"{x:.2f}"
Formatar ==
    /\ texto = None
    /\ texto' = Some(Formato2f(valor))
    /\ UNCHANGED <<valor, relido, varsSummary, varsData, varsRecon, varsSessao>>

\* the text read back as the totals of df_to_doc_bytes read the column
Reler ==
    /\ texto # None
    /\ relido = None
    /\ relido' = Some(ParseValor(Val(texto)))
    /\ UNCHANGED <<valor, texto, varsSummary, varsData, varsRecon, varsSessao>>

NextAmount == Formatar \/ Reler

SpecAmount == InitAmount /\ [][NextAmount]_vars

(***************************************************************************)
(* Specification SpecRecon: processar_pdf on every bounded document.       *)
(***************************************************************************)
InitRecon ==
    /\ tables \in Documentos(MaxItens)
    /\ etapa = "inicio"
    /\ leitura = "pendente"
    /\ anexado = None
    /\ erros = 0
    /\ df_extrato = None
    /\ SemSummary
    /\ SemRoundTrip
    /\ SemData
    /\ SemSessao

\* obter_numero_de_paginas or camelot.read_pdf raises: the except clause
\* reports the error and returns None
LeituraFalha ==
    /\ etapa = "inicio"
    /\ leitura' = "falhou"
    /\ etapa' = "retornou"
    /\ erros' = erros + 1
    /\ df_extrato' = processar_pdf(FALSE, tables)
    /\ UNCHANGED <<tables, anexado, varsSummary, varsAmount, varsData, varsSessao>>

\* the grids are read and the loop over them runs: it appends the rows of the
\* grids, or an iteration raises and the except clause returns None
LerTabelas ==
    /\ etapa = "inicio"
    /\ leitura' = "ok"
    /\ LET a == LoopTabelas(tables, ExtratoInicial)
       IN  IF a = None
           THEN /\ etapa' = "retornou"
                /\ erros' = erros + 1
                /\ df_extrato' = processar_pdf(TRUE, tables)
                /\ UNCHANGED anexado
           ELSE /\ etapa' = "anexado"
                /\ anexado' = a
                /\ UNCHANGED <<erros, df_extrato>>
    /\ UNCHANGED <<tables, varsSummary, varsAmount, varsData, varsSessao>>

\* forward fill, year conversion, continuation merge, return
UnirEDevolver ==
    /\ etapa = "anexado"
    /\ etapa' = "retornou"
    /\ df_extrato' = processar_pdf(TRUE, tables)
    /\ UNCHANGED <<tables, leitura, anexado, erros,
                   varsSummary, varsAmount, varsData, varsSessao>>

NextRecon == LeituraFalha \/ LerTabelas \/ UnirEDevolver

SpecRecon == InitRecon /\ [][NextRecon]_vars

(***************************************************************************)
(* Specification Spec: the Streamlit session.  Every operator action       *)
(* reruns main() from its first line: the file held by the uploader is     *)
(* processed again, then the section of the selected operation runs with   *)
(* the widget the operator used.                                           *)
(***************************************************************************)
\* statements of the session specification: grid rows of six cells
S_DebitoA == <<D_010223, TARIFA_A, Doc(201), <<>>, V_10_00, <<>>>>

S_DebitoB == <<<<>>, TARIFA_B, Doc(202), <<>>, V_5_50, <<>>>>

S_DebitoPix == <<D_05032023, PIX, Doc(203), <<>>, V_7_00, <<>>>>

S_DebitoA2 == <<D_020123, TARIFA_A, Doc(204), <<>>, V_20_00, <<>>>>

S_CreditoA == <<D_010123, TARIFA_A, Doc(205), V_30_00, <<>>, <<>>>>

S_CreditoB == <<<<>>, TARIFA_B, Doc(206), V_1234_50, <<>>, <<>>>>

\* a debit without description
S_DebitoSemHistorico == <<D_020123, <<>>, Doc(207), <<>>, V_5_50, <<>>>>

\* a statement of two grids with debits and credits
ExtratoA ==
    <<<<G_Cabecalho, S_DebitoA, S_DebitoB, S_DebitoPix, S_DebitoSemHistorico, S_DebitoA2>>,
      <<S_CreditoA, S_CreditoB>>>>

\* the glossary files of the session specification, as their lines
Glossarios == {<<>>, <<TARIFA_A>>, <<PIX, TARIFA_A>>}

\* a second statement, of one debit
ExtratoB == <<<<S_DebitoPix>>>>

Extratos == {ExtratoA, ExtratoB}

\* int(precision * 100) for positions of the slider
Limiares == {85, 100}

Init ==
    /\ uploaded_file = None
    /\ glossary_terms \in {carregar_glossario(lido, linhas) :
                               lido \in BOOLEAN, linhas \in Glossarios}
    /\ operacao_selecionada = None
    /\ df_operacao = Nenhum
    /\ df_operacao_gloss = Nenhum
    /\ df_operacao_gloss_filtrado = Nenhum
    /\ excecao = FALSE
    /\ historia = SemHistoria
    /\ df_extrato = None
    /\ leitura = "pendente"
    /\ erros = 0
    /\ tables = <<>> /\ etapa = "inicio" /\ anexado = None
    /\ SemSummary
    /\ SemRoundTrip
    /\ SemData

\* what processar_pdf returns for each statement of the specification
Processado == [leu \in BOOLEAN, doc \in Extratos |-> processar_pdf(leu, doc)]

\* lines 521-543 of a run: the file of the uploader, if any, is processed and
\* the result stored; leu tells whether its pages and tables could be read
ExtratoDoRerun(file, leu) ==
    IF file = None THEN df_extrato ELSE Processado[leu, Val(file)]

ExtratoOk(ext) == ext # None /\ ~Empty(Val(ext))

NaoVazio(slot) == slot # None /\ ~Empty(Val(slot))

\* the frame the checklist of the inclusion form is built from (lines 629-635)
df_base_exclusao(gloss, filtrado) ==
    IF filtrado # None THEN Val(filtrado) ELSE Val(gloss)

\* the summary step storing its report as the inclusion result
AposResumoGravado(filtrado, final) == IF final = None THEN filtrado ELSE final

\* lines 686-719: the summary step binds local names only (drop and concat
\* return new frames), so the slot holds what it held
AposResumo(filtrado, final) == filtrado

\* the inclusion result kept through a glossary-filter run
AposGlossarioMantido(filtrou, filtrado) == filtrado

\* line 611: a glossary-filter run clears the stored inclusion result
AposGlossario(filtrou, filtrado) == IF filtrou THEN None ELSE filtrado

\* the record of the submissions after a run for operation op: classificou
\* once a classifier run stored a view with rows; filtrou when the last
\* glossary-filter run came after such a run; confirmou when an inclusion with
\* rows was confirmed after the last glossary-filter run
HistoriaApos(op, w, classificada, filtrada, confirmada) ==
    [historia EXCEPT ![op] =
        IF classificada
        THEN [@ EXCEPT !.classificou = @ \/ NaoVazio(df_operacao'[op])]
        ELSE IF filtrada
        THEN [@ EXCEPT !.filtrou = historia[op].classificou, !.confirmou = FALSE]
        ELSE IF confirmada
        THEN [@ EXCEPT !.confirmou = NaoVazio(df_operacao_gloss_filtrado'[op])]
        ELSE @]

\* One run of main() with the file `file` in the uploader, in which the
\* operator used widget w: "nenhum", "operacao" (the button of operation op),
\* "filtrar", "glossario" (at threshold limiar), "confirmar" (with the
\* descriptions sel checked) or "apresentar" (the sort returning order ord).
\* The conjuncts follow the order of the script; a primed variable is the
\* session slot as the statements above left it.
Rerun(file, leu, w, op, limiar, sel, ord) ==
    /\ uploaded_file' = file
    /\ leitura' = IF file = None THEN "pendente"
                  ELSE IF leu THEN "ok" ELSE "falhou"
    /\ df_extrato' = ExtratoDoRerun(file, leu)
    /\ erros' = IF file # None /\ df_extrato' = None THEN 1 ELSE 0
    \* line 549 and the operation buttons
    /\ operacao_selecionada' =
           IF w = "operacao" /\ ExtratoOk(df_extrato') /\ operacao_selecionada = None
           THEN Some(op) ELSE operacao_selecionada
    \* form 1
    /\ df_operacao' =
           IF ExtratoOk(df_extrato') /\ operacao_selecionada' = Some(op) /\ w = "filtrar"
           THEN [df_operacao EXCEPT ![op] = Some(filtrar_operacao(op, Val(df_extrato')))]
           ELSE df_operacao
    \* form 2
    /\ df_operacao_gloss' =
           IF /\ ExtratoOk(df_extrato') /\ operacao_selecionada' = Some(op)
              /\ NaoVazio(df_operacao'[op]) /\ w = "glossario"
           THEN [df_operacao_gloss EXCEPT ![op] =
                    Some(DropColumns(
                        filtrar_por_glossario(Val(df_operacao'[op]), glossary_terms, limiar),
                        OutrasColunas(op)))]
           ELSE df_operacao_gloss
    /\ LET ativo == ExtratoOk(df_extrato') /\ operacao_selecionada' = Some(op)
           form2 == ativo /\ NaoVazio(df_operacao'[op])
           f1 == AposGlossario(form2 /\ w = "glossario",
                               df_operacao_gloss_filtrado[op])
           form3 == ativo /\ NaoVazio(df_operacao_gloss'[op])
       IN  \* df_base_exclusao["Historico"] raises KeyError on a frame without it
           /\ excecao' = (form3 /\ "Historico" \notin
                                      df_base_exclusao(df_operacao_gloss'[op], f1).cols)
           \* form 3
           /\ LET f3 == IF form3 /\ ~excecao' /\ w = "confirmar"
                        THEN Some(Inclusao(
                                 df_base_exclusao(df_operacao_gloss'[op], f1), sel))
                        ELSE f1
              IN  \* form 4
                  /\ extrato_final' =
                         IF form3 /\ ~excecao' /\ w = "apresentar" /\ NaoVazio(f3)
                         THEN Some(extrato_final_de(
                                       DropColumns(Val(f3), OutrasColunas(op)),
                                       op, ord))
                         ELSE None
                  /\ df_operacao_gloss_filtrado' =
                         [df_operacao_gloss_filtrado EXCEPT ![op] =
                             AposResumo(f3, extrato_final')]
           /\ historia' = HistoriaApos(op, w,
                              ativo /\ w = "filtrar",
                              form2 /\ w = "glossario",
                              form3 /\ ~excecao' /\ w = "confirmar")
    /\ UNCHANGED <<view, coluna, avisos, varsAmount, varsData,
                   tables, etapa, anexado, glossary_terms>>

\* the operation whose section the next run executes, when one is selected
OperacaoAtual == IF operacao_selecionada = None THEN "Debito" ELSE Val(operacao_selecionada)

\* the widgets the last run rendered
SecaoVisivel(op) == ExtratoOk(df_extrato) /\ operacao_selecionada = Some(op)

Form2Visivel(op) ==
    /\ SecaoVisivel(op)
    /\ df_operacao[op] # None /\ ~Empty(Val(df_operacao[op]))

Form3Visivel(op) ==
    /\ SecaoVisivel(op)
    /\ df_operacao_gloss[op] # None /\ ~Empty(Val(df_operacao_gloss[op]))
    /\ ~excecao

Form4Visivel(op) ==
    /\ Form3Visivel(op)
    /\ df_operacao_gloss_filtrado[op] # None
    /\ ~Empty(Val(df_operacao_gloss_filtrado[op]))

\* the operator puts a statement in the uploader
CarregarArquivo ==
    \E doc \in Extratos : \E leu \in BOOLEAN :
        Rerun(Some(doc), leu, "nenhum", OperacaoAtual, 0, {}, <<>>)

\* the operator removes the file from the uploader
RemoverArquivo ==
    /\ uploaded_file # None
    /\ Rerun(None, TRUE, "nenhum", OperacaoAtual, 0, {}, <<>>)

\* button "Debito" or "Credito"
EscolherOperacao ==
    /\ ExtratoOk(df_extrato)
    /\ operacao_selecionada = None
    /\ \E op \in Operacoes : \E leu \in BOOLEAN :
           Rerun(uploaded_file, leu, "operacao", op, 0, {}, <<>>)

\* "Filtrar Debitos" / "Filtrar Creditos"
FiltrarA(op, leu) ==
    /\ SecaoVisivel(op)
    /\ Rerun(uploaded_file, leu, "filtrar", op, 0, {}, <<>>)

FiltrarOperacao ==
    \E op \in Operacoes : \E leu \in BOOLEAN : FiltrarA(op, leu)

\* "Filtrar Debitos no Glossario" / "Filtrar Creditos no Glossario"
FiltrarNoGlossario(op, leu, limiar) ==
    /\ Form2Visivel(op)
    /\ Rerun(uploaded_file, leu, "glossario", op, limiar, {}, <<>>)

FiltrarGlossario ==
    \E op \in Operacoes : \E leu \in BOOLEAN : \E limiar \in Limiares :
        FiltrarNoGlossario(op, leu, limiar)

\* "Confirmar Inclusao dos Selecionados": the checkboxes are keyed by position
\* and the run rebuilds the checklist from the frame stored when it starts, so
\* the selection is a set sel of the descriptions of that frame
ConfirmarSelecionados(op, leu, sel) ==
    /\ Form3Visivel(op)
    /\ sel \subseteq valores_unicos(df_base_exclusao(df_operacao_gloss[op],
                                                     df_operacao_gloss_filtrado[op]))
    /\ Rerun(uploaded_file, leu, "confirmar", op, 0, sel, <<>>)

ConfirmarInclusao ==
    \E op \in Operacoes : \E leu \in BOOLEAN :
        /\ Form3Visivel(op)
        /\ \E sel \in SUBSET valores_unicos(
                         df_base_exclusao(df_operacao_gloss[op],
                                          df_operacao_gloss_filtrado[op])) :
               ConfirmarSelecionados(op, leu, sel)

\* "Apresentar Tarifas"
ApresentarTarifas ==
    \E op \in Operacoes : \E leu \in BOOLEAN :
        /\ Form4Visivel(op)
        /\ \E ord \in sort_values(DatasDe(Concatenado(
                         DropColumns(Val(df_operacao_gloss_filtrado[op]),
                                     OutrasColunas(op)), op))) :
               /\ Rerun(uploaded_file, leu, "apresentar", op, 0, {}, ord)
               \* the sort is a function of its input: after a run that showed
               \* the report of this same frame, it returns the order it
               \* returned in that run
               /\ (extrato_final # None /\ extrato_final' # None) =>
                      extrato_final' = extrato_final

\* "Redefinir Selecao": when the run reaches the button, the selected
\* operation is cleared and st.experimental_rerun() starts a second run
RedefinirSelecao ==
    /\ ExtratoOk(df_extrato)
    /\ operacao_selecionada # None
    /\ ~excecao
    /\ \E leu \in BOOLEAN : \E leu2 \in BOOLEAN :
           LET alcancou == ExtratoOk(ExtratoDoRerun(uploaded_file, leu))
               ultima == IF alcancou THEN leu2 ELSE leu
           IN  /\ df_extrato' = ExtratoDoRerun(uploaded_file, ultima)
               /\ operacao_selecionada' =
                      IF alcancou THEN None ELSE operacao_selecionada
               /\ leitura' = IF uploaded_file = None THEN "pendente"
                             ELSE IF ultima THEN "ok" ELSE "falhou"
               /\ erros' = IF uploaded_file # None /\ df_extrato' = None THEN 1 ELSE 0
               /\ excecao' = FALSE
               /\ extrato_final' = None
               /\ UNCHANGED <<uploaded_file, glossary_terms, df_operacao,
                              df_operacao_gloss, df_operacao_gloss_filtrado, historia,
                              view, coluna, avisos, varsAmount, varsData, tables, etapa, anexado>>

Next ==
    \/ CarregarArquivo
    \/ RemoverArquivo
    \/ EscolherOperacao
    \/ FiltrarOperacao
    \/ FiltrarGlossario
    \/ ConfirmarInclusao
    \/ ApresentarTarifas
    \/ RedefinirSelecao

Spec == Init /\ [][Next]_vars

(***************************************************************************)
(* Specification SpecData: converter_data_para_dois_digitos on every       *)
(* bounded cell, and on its own result.                                    *)
(***************************************************************************)
NotADateTxt == <<"n", "o", "t", "-", "a", "-", "d", "a", "t", "e">>

\* the segments the cells of the specification are joined from
Segmentos ==
    {<<>>, <<"0", "5">>, <<"0", "3">>, <<"2", "3">>, <<"2", "0", "2", "3">>,
     <<"1", "9", "9", "9">>, <<"2", "0", "2", "3", "4">>, <<"a", "b">>,
     <<"e", "f", "g", "h">>, NotADateTxt}

\* the cells: a missing cell, and up to n segments joined by "/"
Celulas(n) ==
    {NaN} \cup {Join(ps, "/") : ps \in SeqAte(Segmentos, n) \ {<<>>}}

InitData ==
    /\ entrada \in Celulas(MaxSegmentos)
    /\ convertida = None
    /\ reconvertida = None
    /\ SemRoundTrip
    /\ SemSummary
    /\ SemRecon
    /\ SemSessao

\* extrato["Data"].apply(converter_data_para_dois_digitos) on the cell
Converter ==
    /\ convertida = None
    /\ convertida' = Some(converter_data_para_dois_digitos(entrada))
    /\ UNCHANGED <<entrada, reconvertida, varsSummary, varsAmount, varsRecon, varsSessao>>

\* the converter on a cell it has already converted
Reconverter ==
    /\ convertida # None
    /\ reconvertida = None
    /\ reconvertida' = Some(converter_data_para_dois_digitos(Val(convertida)))
    /\ UNCHANGED <<entrada, convertida, varsSummary, varsAmount, varsRecon, varsSessao>>

NextData == Converter \/ Reconverter

SpecData == InitData /\ [][NextData]_vars

(***************************************************************************)
(* Claims.  What a claim expects of a cell text of the specifications is   *)
(* written down per text, independently of the operators above.            *)
(***************************************************************************)
\* the amount a cell text stands for under the thousands-dot/decimal-comma
\* convention, as an absolute value in hundredths; 0 when it is no amount
QuantiaEsperada(v) ==
    CASE v = V_10_00 -> 1000
      [] v = V_5_50 -> 550
      [] v = V_20_00 -> 2000
      [] v = V_30_00 -> 3000
      [] v = V_1234_50 -> 123450
      [] v = V_7_00 -> 700
      [] v = V_neg_20_00 -> 2000
      [] OTHER -> 0

\* the rank of a date text in calendar order; 0 when it is no date
OrdemEsperada(d) ==
    CASE d = D_010199 -> 1
      [] d = D_010123 -> 2
      [] d = D_020123 -> 3
      [] OTHER -> 0

RECURSIVE TotalEsperado(_, _)
TotalEsperado(rows, col) ==
    IF rows = <<>> THEN 0
    ELSE QuantiaEsperada(rows[1][col]) + TotalEsperado(Tail(rows), col)

\* the rows of the report that carry a given label
LinhasCom(rotulo) ==
    {i \in 1..Len(Val(extrato_final).rows) :
        Val(extrato_final).rows[i].Historico = rotulo}

\* AmountParser.format of the specification: two fractional digits, decimal
\* comma, thousands dot
RECURSIVE Milhares(_)
Milhares(n) ==
    IF n < 1000 THEN TextoDe(n)
    ELSE Milhares(n \div 1000) \o <<".">>
         \o <<Digitos[((n % 1000) \div 100) + 1]>> \o DoisDigitos(n % 100)

FormatoLocal(n) == Milhares(n \div 100) \o <<",">> \o DoisDigitos(n % 100)

\* C1: once the summary step has run on a view, the numeric value of the
\* 'Valor Total (R$)' row is the sum over the rows of the view of the absolute
\* amounts (an unparseable amount counting 0), and the value of the
\* 'Em dobro (R$)' row is twice that sum.
C1_TotalIsSumOfAbs ==
    extrato_final # None =>
        LET esperado == TotalEsperado(view.rows, coluna)
            rows == Val(extrato_final).rows
        IN  /\ \E i \in LinhasCom(ValorTotalTxt) :
                   to_numeric(rows[i][coluna]) = Numero(esperado)
            /\ \E i \in LinhasCom(EmDobroTxt) :
                   to_numeric(rows[i][coluna]) = Numero(2 * esperado)
            /\ Cardinality(LinhasCom(ValorTotalTxt)) = 1
            /\ Cardinality(LinhasCom(EmDobroTxt)) = 1

\* C11: for an empty view the summary step does not fail and its report is
\* exactly the two synthesized rows, the total and then its double, both with
\* a total of zero.
C11_EmptyViewZeroTotals ==
    (coluna # "" /\ Empty(view) /\ (extrato_final # None \/ avisos > 0)) =>
        /\ extrato_final # None
        /\ Len(Val(extrato_final).rows) = 2
        /\ Val(extrato_final).rows[1].Historico = ValorTotalTxt
        /\ Val(extrato_final).rows[2].Historico = EmDobroTxt
        /\ to_numeric(Val(extrato_final).rows[1][coluna]) = Numero(0)
        /\ to_numeric(Val(extrato_final).rows[2][coluna]) = Numero(0)

\* C12: a transaction row whose Data text is not empty and cannot be parsed as
\* a date has the same Data text in the Final Report Table as in the view
\* handed to the summary step.
C12_UnparseableDateUnchanged ==
    extrato_final # None =>
        \A i \in 1..Len(view.rows) :
            LET d == view.rows[i].Data
            IN  (d # NaN /\ d # <<>> /\ ~to_datetime(d).ok) =>
                    \E j \in 1..Len(Val(extrato_final).rows) :
                        /\ Val(extrato_final).rows[j].Docto = view.rows[i].Docto
                        /\ Val(extrato_final).rows[j].Data = d

\* C1 witness: a report made from a view that holds an unparseable amount, a
\* negative amount and a positive one
C1_Witness ==
    /\ extrato_final # None
    /\ \E i, j, k \in 1..Len(view.rows) :
           /\ view.rows[i][coluna] = V_abc
           /\ view.rows[j][coluna] = V_neg_20_00
           /\ view.rows[k][coluna] = V_1234_50

\* C2: the amount cells of the two synthesized rows are in the locale format
\* (two fractional digits, decimal comma, thousands dot); amounts "10,00" and
\* "5,50" give "15,50" and "31,00", and a total of 1234.5 gives "1.234,50".
C2_LocaleFormat ==
    extrato_final # None =>
        LET esperado == TotalEsperado(view.rows, coluna)
            rows == Val(extrato_final).rows
            n == Len(rows)
            valores == [i \in 1..Len(view.rows) |-> view.rows[i][coluna]]
        IN  /\ rows[n - 1][coluna] = FormatoLocal(esperado)
            /\ rows[n][coluna] = FormatoLocal(2 * esperado)
            /\ valores = <<V_10_00, V_5_50>> =>
                   /\ rows[n - 1][coluna] = <<"1", "5", ",", "5", "0">>
                   /\ rows[n][coluna] = <<"3", "1", ",", "0", "0">>
            /\ valores = <<V_1234_50>> =>
                   rows[n - 1][coluna] = <<"1", ".", "2", "3", "4", ",", "5", "0">>

\* C3: in every report the Total row and the Double row are the last two
\* rows, in that order and with an empty Data; every row with a parseable date
\* comes before every other row, in ascending date order; and the step
\* produces a report for every view, whatever its Data cells.
C3_TotalsLastDatedAscending ==
    /\ extrato_final = None =>
           sort_values(DatasDe(Concatenado(view, coluna))) # {}
    /\ extrato_final # None =>
        LET rows == Val(extrato_final).rows
            n == Len(rows)
            datadas == {i \in 1..Len(view.rows) :
                           OrdemEsperada(view.rows[i].Data) > 0}
        IN  /\ n = Len(view.rows) + 2
            /\ rows[n - 1].Historico = ValorTotalTxt /\ rows[n - 1].Data = <<>>
            /\ rows[n].Historico = EmDobroTxt /\ rows[n].Data = <<>>
            /\ \A i \in 1..n :
                   (OrdemEsperada(rows[i].Data) > 0) <=> (i <= Cardinality(datadas))
            /\ \A i \in 1..n : \A j \in 1..n :
                   (i < j /\ j <= Cardinality(datadas)) =>
                       OrdemEsperada(rows[i].Data) <= OrdemEsperada(rows[j].Data)
            /\ \A i \in datadas : \E j \in 1..Cardinality(datadas) :
                   rows[j] = view.rows[i]

\* C3 witness: a report made from a view whose first row has no date, whose
\* second has an unparseable one, and whose last has a real date
C3_Witness ==
    /\ extrato_final # None
    /\ Len(view.rows) = 3
    /\ view.rows[1].Data = NaN
    /\ view.rows[2].Data = D_310223
    /\ view.rows[3].Data = D_010123

\* C10: for every non-negative amount x with two fractional digits, reading
\* back (remove '.', replace ',' by '.', read as a number) the text the
\* program renders for x in an amount cell gives x.
C10_RoundTrip ==
    relido # None => Val(relido) = Numero(valor)

(***************************************************************************)
(* Claims on the reconstruction.                                           *)
(***************************************************************************)
\* a continuation candidate: DocumentNo, Credit, Debit and Balance all empty
Candidata(r) == <<r.Docto, r.Credito, r.Debito, r.Saldo>> = <<<<>>, <<>>, <<>>, <<>>>>

\* the first row of the run of candidates that ends just before row f
RECURSIVE InicioDaCorrida(_, _)
InicioDaCorrida(rows, f) ==
    IF f > 1 /\ Candidata(rows[f - 1]) THEN InicioDaCorrida(rows, f - 1) ELSE f

\* the descriptions of rows s..f joined by single spaces
RECURSIVE Juntas(_, _, _)
Juntas(rows, s, f) ==
    IF s = f THEN rows[f].Historico
    ELSE rows[s].Historico \o <<" ">> \o Juntas(rows, s + 1, f)

\* C4: every run of k >= 1 consecutive continuation candidates followed by a
\* non-candidate row becomes exactly one Ledger row, that of the follower,
\* whose Historico is the k fragments and then the follower's, in order,
\* joined by single spaces; no candidate remains in the Ledger; and the rows
\* ("", "PARTE A", ...), ("01/02/23", "PARTE B", "123", "", "10,00", "") give
\* one row with Historico "PARTE A PARTE B".
C4_ContinuationMerge ==
    (etapa = "retornou" /\ df_extrato # None) =>
        LET a == Val(anexado).rows
            l == Val(df_extrato).rows
            seguidoras == EmOrdem({i \in 1..Len(a) : ~Candidata(a[i])})
        IN  /\ \A j \in 1..Len(l) : ~Candidata(l[j])
            /\ Len(l) = Len(seguidoras)
            /\ \A j \in 1..Len(seguidoras) :
                   LET f == seguidoras[j]
                   IN  /\ l[j].Historico = Juntas(a, InicioDaCorrida(a, f), f)
                       /\ <<l[j].Docto, l[j].Credito, l[j].Debito, l[j].Saldo>>
                              = <<a[f].Docto, a[f].Credito, a[f].Debito, a[f].Saldo>>
            /\ tables = <<<<G_ParteA, G_Debito>>>> =>
                   /\ Len(l) = 1
                   /\ l[1].Historico = PARTE_A \o <<" ">> \o PARTE_B

\* C4 witness: a Ledger returned for appended rows that start with a run of
\* three candidates followed by a row that is none
C4_Witness ==
    /\ etapa = "retornou" /\ df_extrato # None
    /\ Len(Val(anexado).rows) >= 4
    /\ \A i \in 1..3 : Candidata(Val(anexado).rows[i])
    /\ ~Candidata(Val(anexado).rows[4])

\* the rows of a grid below its first row that holds a cell "Data"; every row
\* when there is none
LinhasUteis(g) ==
    LET cab == {k \in 1..Len(g) : DataTxt \in {g[k][c] : c \in 1..Len(g[k])}}
    IN  SelectSeq([i \in 1..Len(g) |-> <<i, g[i]>>],
                  LAMBDA x : cab = {} \/ \E k \in cab : k < x[1])

TemRuido(g) ==
    {g[i][j] : i \in 1..Len(g), j \in 1..Len(g[1])}
        \cap {FoneFacilTxt, BiaTxt, InvestFacilTxt} # {}

EmRegistro(c) ==
    [Data |-> c[1], Historico |-> c[2], Docto |-> c[3],
     Credito |-> c[4], Debito |-> c[5], Saldo |-> c[6]]

RECURSIVE AnexadasEsperadas(_)
AnexadasEsperadas(ts) ==
    IF ts = <<>> THEN <<>>
    ELSE (IF TemRuido(ts[1]) THEN <<>>
          ELSE [i \in 1..Len(LinhasUteis(ts[1])) |->
                   EmRegistro(LinhasUteis(ts[1])[i][2])])
         \o AnexadasEsperadas(Tail(ts))

\* a grid that is not discarded and has fewer or more than six columns
Irregular(g) == ~TemRuido(g) /\ Len(g[1]) # 6

\* C5: a grid with fewer or with more than six columns does not abort the
\* reconstruction: when the grids were read and one of them is such a grid, a
\* Ledger is returned, and it has at least the rows that the six-column grids
\* without a noise cell contribute.
C5_RaggedGridTolerated ==
    (/\ etapa = "retornou" /\ leitura = "ok"
     /\ \E t \in 1..Len(tables) : Irregular(tables[t])) =>
        /\ df_extrato # None
        /\ LET boas == SelectSeq(tables, LAMBDA g : Len(g[1]) = 6)
               docs == {AnexadasEsperadas(boas)[i].Docto :
                           i \in 1..Len(AnexadasEsperadas(boas))} \ {<<>>}
           IN  \A d \in docs : \E j \in 1..Len(Val(df_extrato).rows) :
                   Val(df_extrato).rows[j].Docto = d

\* C8: a grid with a cell equal to one of the fixed noise strings, in any row
\* (also above the header row), contributes no row; every other grid has the
\* rows below its header row appended, all of them, in grid order; and the
\* Ledger holds only rows that were appended.
C8_NoiseGridDiscarded ==
    /\ anexado # None => Val(anexado).rows = AnexadasEsperadas(tables)
    /\ (etapa = "retornou" /\ df_extrato # None) =>
           /\ anexado # None
           /\ \A j \in 1..Len(Val(df_extrato).rows) :
                  \E i \in 1..Len(AnexadasEsperadas(tables)) :
                      LET l == Val(df_extrato).rows[j]
                          a == AnexadasEsperadas(tables)[i]
                      IN  <<l.Docto, l.Credito, l.Debito, l.Saldo>>
                              = <<a.Docto, a.Credito, a.Debito, a.Saldo>>

\* C8 witness: the first grid has a noise cell above its header row and a
\* transaction below it, the second grid has none, and only the rows of the
\* second grid were appended
C8_Witness ==
    /\ etapa = "anexado"
    /\ tables = <<<<G_Rodape, G_Cabecalho, G_Debito>>, <<G_Credito>>>>
    /\ Val(anexado).rows = <<EmRegistro(G_Credito)>>

(***************************************************************************)
(* Claims on the session.                                                  *)
(***************************************************************************)
\* the descriptions a checklist of the session can show
Descricoes == {TARIFA_A, TARIFA_B, PIX}

\* the rows of a sequence whose description is one of sel, in their order
RECURSIVE Mantidas(_, _)
Mantidas(rows, sel) ==
    IF rows = <<>> THEN <<>>
    ELSE (IF rows[1].Historico \in sel THEN <<rows[1]>> ELSE <<>>)
         \o Mantidas(Tail(rows), sel)

\* the section of operation op ran up to the inclusion form in this step
ChegouAInclusao(op) ==
    /\ ExtratoOk(df_extrato')
    /\ operacao_selecionada' = Some(op)

\* C6: confirming an empty selection stores an empty view as the inclusion
\* result and raises nothing, and while an empty view is the stored inclusion
\* result no later run raises.
C6_EmptySelectionIsValid ==
    [][\A op \in Operacoes :
          /\ (\E leu \in BOOLEAN : /\ ChegouAInclusao(op)
                                   /\ ConfirmarSelecionados(op, leu, {})) =>
                 /\ df_operacao_gloss_filtrado'[op] # None
                 /\ Empty(Val(df_operacao_gloss_filtrado'[op]))
                 /\ ~excecao'
          /\ (/\ df_operacao_gloss_filtrado[op] # None
              /\ Empty(Val(df_operacao_gloss_filtrado[op]))) => ~excecao'
      ]_vars

\* C7: applied to a view (a frame with the column Historico) and a selection,
\* the inclusion keeps, in their original order, exactly the rows of the view
\* whose Historico is one of the selected descriptions; for an empty selection
\* on a non-empty view the stored result is an empty view and nothing is
\* raised.
C7_InclusionKeepsSelected ==
    [][\A op \in Operacoes : \A leu \in BOOLEAN : \A sel \in SUBSET Descricoes :
          LET base == df_base_exclusao(df_operacao_gloss[op],
                                       df_operacao_gloss_filtrado[op])
              depois == Val(df_operacao_gloss_filtrado'[op])
          IN  (/\ ChegouAInclusao(op)
               /\ ConfirmarSelecionados(op, leu, sel)
               /\ "Historico" \in base.cols) =>
                  /\ df_operacao_gloss_filtrado'[op] # None
                  /\ depois.rows = Mantidas(base.rows, sel)
                  /\ sel = {} => Empty(depois)
                  /\ ~excecao'
      ]_vars

\* C7 witness: of the view TARIFA A, TARIFA B, TARIFA A the stored inclusion
\* result holds the two rows TARIFA A, in the order of the view
C7_Witness ==
    /\ NaoVazio(df_operacao_gloss["Debito"])
    /\ Len(Val(df_operacao_gloss["Debito"]).rows) = 3
    /\ Val(df_operacao_gloss["Debito"]).rows[2].Historico = TARIFA_B
    /\ NaoVazio(df_operacao_gloss_filtrado["Debito"])
    /\ Val(df_operacao_gloss_filtrado["Debito"]).rows
           = <<Val(df_operacao_gloss["Debito"]).rows[1],
               Val(df_operacao_gloss["Debito"]).rows[3]>>

\* C9: a run in which reading the pages or locating the grids raises reports
\* one error and stores no Ledger; the classification, the glossary filter,
\* the inclusion and the summary do not run in it: their slots keep their
\* values and no report is shown.
C9_ReadFailureNoLedger ==
    [][leitura' = "falhou" =>
          /\ df_extrato' = None
          /\ erros' = 1
          /\ UNCHANGED <<df_operacao, df_operacao_gloss, df_operacao_gloss_filtrado>>
          /\ extrato_final' = None
          /\ ~excecao'
      ]_vars

\* C9 witness: the read failed in a session that had an operation selected
\* and an inclusion result stored
C9_Witness ==
    /\ leitura = "falhou"
    /\ df_extrato = None
    /\ operacao_selecionada = Some("Debito")
    /\ NaoVazio(df_operacao_gloss_filtrado["Debito"])

(***************************************************************************)
(* Claims on the year conversion.                                          *)
(***************************************************************************)
\* the number of "/" of a text
NumBarras(x) == Cardinality({i \in 1..Len(x) : x[i] = "/"})

\* a text of digits and "/" whose "/" are exactly those of the positions in
\* barras
Padrao(x, tamanho, barras) ==
    /\ x # NaN
    /\ Len(x) = tamanho
    /\ \A i \in 1..tamanho :
           IF i \in barras THEN x[i] = "/" ELSE x[i] \in {Digitos[k] : k \in 1..10}

\* a malformed cell: a text that does not have three segments, or one with
\* three segments and a character that is neither a digit nor "/"
Malformada(x) ==
    /\ x # NaN
    /\ \/ NumBarras(x) # 2
       \/ \E i \in 1..Len(x) : x[i] # "/" /\ x[i] \notin {Digitos[k] : k \in 1..10}

\* C13: for every malformed cell (not three segments, or three segments that
\* are not a date) the converter returns the cell unchanged.
C13_MalformedUnchanged ==
    (convertida # None /\ Malformada(entrada)) => Val(convertida) = entrada

\* C14: DD/MM/YYYY becomes DD/MM/YY with the last two digits of the year;
\* DD/MM/YY and the empty cell are returned as they are; and converting the
\* result again returns the result.
C14_TwoDigitYearIdempotent ==
    /\ (convertida # None /\ Padrao(entrada, 10, {3, 6})) =>
           Val(convertida) = SubSeq(entrada, 1, 6) \o SubSeq(entrada, 9, 10)
    /\ (convertida # None /\ (Padrao(entrada, 8, {3, 6}) \/ entrada = <<>>)) =>
           Val(convertida) = entrada
    /\ reconvertida # None => Val(reconvertida) = Val(convertida)

\* C14 witness: "05/03/2023" was converted to "05/03/23", and that again
C14_Witness ==
    /\ entrada = <<"0", "5", "/", "0", "3", "/", "2", "0", "2", "3">>
    /\ convertida = Some(<<"0", "5", "/", "0", "3", "/", "2", "3">>)
    /\ reconvertida = convertida

(***************************************************************************)
(* Claims on the glossary filter and the classifier.                       *)
(***************************************************************************)
\* the rows with a description for which some term of the glossary scores at
\* least the threshold, in their order
RECURSIVE NoGlossario(_, _, _)
NoGlossario(rows, glossary, threshold) ==
    IF rows = <<>> THEN <<>>
    ELSE (IF /\ rows[1].Historico # <<>>
             /\ \E k \in 1..Len(glossary) :
                    Pontuacao(rows[1].Historico, glossary[k]) >= threshold
          THEN <<rows[1]>> ELSE <<>>)
         \o NoGlossario(Tail(rows), glossary, threshold)

RECURSIVE VisaoEsperada(_, _, _)
VisaoEsperada(rows, col, cols) ==
    IF rows = <<>> THEN <<>>
    ELSE (IF rows[1][col] # <<>> THEN <<[c \in cols |-> rows[1][c]]>> ELSE <<>>)
         \o VisaoEsperada(Tail(rows), col, cols)

\* C16: the Debit view is exactly the Ledger rows whose Debito cell is not
\* empty, in Ledger order, without the columns Credito and Saldo; the Credit
\* view likewise for Credito, without Debito and Saldo; and the Ledger stored
\* after the step is the Ledger the view was made from.
C16_ClassifierViews ==
    [][\A op \in Operacoes : \A leu \in BOOLEAN :
          (ChegouAInclusao(op) /\ FiltrarA(op, leu)) =>
              LET ledger == Val(ExtratoDoRerun(uploaded_file, leu))
                  cols == {"Data", "Historico", "Docto", op}
              IN  /\ df_operacao'[op] # None
                  /\ Val(df_operacao'[op]).cols = cols
                  /\ Val(df_operacao'[op]).rows = VisaoEsperada(ledger.rows, op, cols)
                  /\ df_extrato' = Some(ledger)
                  /\ ledger.cols = ColunasExtrato
      ]_vars

\* C16 witness: the Credit view holds the two credits of a Ledger of seven
\* rows, and the Ledger still has its seven rows
C16_Witness ==
    /\ df_extrato # None
    /\ Len(Val(df_extrato).rows) = 7
    /\ df_operacao["Credito"] # None
    /\ Len(Val(df_operacao["Credito"]).rows) = 2
    /\ \A i \in 1..2 : Val(df_operacao["Credito"]).rows[i].Credito # <<>>

\* ---------------------------------------------------------------------------
\* Re-entrant stages of the session
\* ---------------------------------------------------------------------------

\* C17: a glossary-filter run over a view that was already glossary-filtered,
\* with the same document still in the uploader, does not run the
\* reconstruction again: the run reads no document and the Ledger stays as it
\* was stored.
C17_GlossaryRerunKeepsLedger ==
    [][\A op \in Operacoes : \A leu \in BOOLEAN : \A limiar \in Limiares :
          (/\ df_operacao_gloss[op] # None
           /\ uploaded_file # None
           /\ FiltrarNoGlossario(op, leu, limiar)) =>
              /\ leitura' = "pendente"
              /\ df_extrato' = df_extrato
      ]_vars

C19_ViewsDeriveFromStoredLedger ==
    \A op \in Operacoes :
        df_extrato # None =>
            LET visao == filtrar_operacao(op, Val(df_extrato))
            IN  /\ df_operacao[op] # None => Val(df_operacao[op]) = visao
                /\ df_operacao_gloss[op] # None =>
                       \E limiar \in Limiares :
                           Val(df_operacao_gloss[op]) =
                               DropColumns(
                                   filtrar_por_glossario(visao, glossary_terms, limiar),
                                   OutrasColunas(op))
                /\ df_operacao_gloss_filtrado[op] # None =>
                       \A i \in 1..Len(Val(df_operacao_gloss_filtrado[op]).rows) :
                           \E j \in 1..Len(visao.rows) :
                               Val(df_operacao_gloss_filtrado[op]).rows[i] = visao.rows[j]

\* ---------------------------------------------------------------------------
\* Dates of the Ledger
\* ---------------------------------------------------------------------------

D_050323 == <<"0", "5", "/", "0", "3", "/", "2", "3">>

\* the appended rows at or before row i whose date cell is not empty
ComData(a, i) == {j \in 1..i : a[j].Data # <<>>}

\* the two-digit-year form of the nearest non-empty date cell at or before
\* row i, a missing value when there is none
DataEsperada(a, i) ==
    IF ComData(a, i) = {} THEN NaN
    ELSE LET n == CHOOSE j \in ComData(a, i) : \A k \in ComData(a, i) : k <= j
         IN  converter_data_para_dois_digitos(a[n].Data)

\* C20: after reconstruction every Ledger row's Data is the two-digit-year
\* form of the nearest non-empty date cell at or before that row among the
\* appended rows, whatever grid they came from and however many empty cells
\* lie between; a Ledger row has an empty or missing Data only if no appended
\* row at or before it had a non-empty date cell.
C20_DateForwardFill ==
    (etapa = "retornou" /\ df_extrato # None) =>
        LET a == Val(anexado).rows
            l == Val(df_extrato).rows
            seguidoras == EmOrdem({i \in 1..Len(a) : ~Candidata(a[i])})
        IN  /\ Len(l) = Len(seguidoras)
            /\ \A j \in 1..Len(seguidoras) :
                   /\ l[j].Data = DataEsperada(a, seguidoras[j])
                   /\ l[j].Data \in {<<>>, NaN} => ComData(a, seguidoras[j]) = {}

\* C20 witness: a document of more than one grid whose Ledger has a row that
\* had an empty date cell, as the row before it, and took 05/03/23 from the
\* cell 05/03/2023 two rows before
C20_Witness ==
    /\ etapa = "retornou" /\ df_extrato # None
    /\ Len(tables) >= 2
    /\ LET a == Val(anexado).rows
           l == Val(df_extrato).rows
           seguidoras == EmOrdem({i \in 1..Len(a) : ~Candidata(a[i])})
       IN  \E j \in 1..Len(seguidoras) :
               LET f == seguidoras[j]
               IN  /\ f >= 3
                   /\ a[f].Data = <<>>
                   /\ a[f - 1].Data = <<>>
                   /\ a[f - 2].Data = D_05032023
                   /\ j <= Len(l)
                   /\ l[j].Data = D_050323

\* ---------------------------------------------------------------------------
\* The Final Report Table in the session
\* ---------------------------------------------------------------------------

\* the run of this step showed a Final Report Table for operation op
Apresentou(op) == extrato_final' # None /\ operacao_selecionada' = Some(op)

\* every row of frame a is a row of frame b
LinhasDe(a, b) ==
    \A i \in 1..Len(a.rows) : \E j \in 1..Len(b.rows) : a.rows[i] = b.rows[j]

\* C21: every Final Report Table is built from the stored inclusion result,
\* which has rows and was confirmed after the most recent glossary-filter run
\* of the operation, itself made after a classifier run that stored a view
\* with rows; the inclusion result holds only rows of the stored
\* glossary-filtered view, never those of an older one.
C21_ReportFromCurrentInclusion ==
    [][\A op \in Operacoes :
          Apresentou(op) =>
              /\ historia[op].classificou
              /\ historia[op].filtrou
              /\ historia[op].confirmou
              /\ NaoVazio(df_operacao_gloss_filtrado[op])
              /\ NaoVazio(df_operacao_gloss[op])
              /\ LinhasDe(Val(df_operacao_gloss_filtrado[op]), Val(df_operacao_gloss[op]))
              /\ LET v == DropColumns(Val(df_operacao_gloss_filtrado[op]),
                                      OutrasColunas(op))
                 IN  \E ord \in sort_values(DatasDe(Concatenado(v, op))) :
                         extrato_final' = Some(extrato_final_de(v, op, ord))
      ]_vars

\* C21 witness: a report on screen for debits, built from an inclusion result
\* that left out a row of the glossary-filtered view
C21_Witness ==
    /\ extrato_final # None
    /\ operacao_selecionada = Some("Debito")
    /\ historia["Debito"].confirmou
    /\ NaoVazio(df_operacao_gloss_filtrado["Debito"])
    /\ Len(Val(df_operacao_gloss_filtrado["Debito"]).rows)
           < Len(Val(df_operacao_gloss["Debito"]).rows)

\* the rows of a sequence that carry the label of a synthesized row
Sinteses(rows) ==
    {i \in 1..Len(rows) : rows[i].Historico \in {ValorTotalTxt, EmDobroTxt}}

\* C22: a run that shows the Final Report Table leaves the stored inclusion
\* result, glossary-filtered view, Debit/Credit view and Ledger as they were;
\* a request that follows a report shows the same table again; and each report
\* holds the rows of the stored inclusion result and two synthesized rows
\* only, its total being the sum over the rows of the stored inclusion result,
\* which never holds a synthesized row.
C22_ReportLeavesViewsUnchanged ==
    [][\A op \in Operacoes :
          Apresentou(op) =>
              /\ df_operacao_gloss_filtrado' = df_operacao_gloss_filtrado
              /\ df_operacao_gloss' = df_operacao_gloss
              /\ df_operacao' = df_operacao
              /\ df_extrato' = df_extrato
              /\ extrato_final # None => extrato_final' = extrato_final
              /\ LET v == Val(df_operacao_gloss_filtrado'[op]).rows
                     r == Val(extrato_final').rows
                 IN  /\ Sinteses(v) = {}
                     /\ Len(r) = Len(v) + 2
                     /\ Cardinality(Sinteses(r)) = 2
                     /\ \E i \in Sinteses(r) :
                            /\ r[i].Historico = ValorTotalTxt
                            /\ to_numeric(r[i][op]) = Numero(TotalEsperado(v, op))
      ]_vars

\* C22 witness: a report of three debit rows and the two synthesized rows is
\* on screen, and the stored inclusion result still has its three rows
C22_Witness ==
    /\ extrato_final # None
    /\ operacao_selecionada = Some("Debito")
    /\ NaoVazio(df_operacao_gloss_filtrado["Debito"])
    /\ Len(Val(df_operacao_gloss_filtrado["Debito"]).rows) = 3
    /\ Len(Val(extrato_final).rows) = 5

\* ---------------------------------------------------------------------------
\* Text kept by the continuation merge
\* ---------------------------------------------------------------------------

\* text x occurs in text y
Contida(x, y) ==
    \E k \in 0..(Len(y) - Len(x)) : SubSeq(y, k + 1, k + Len(x)) = x

\* C23: the Historico of every continuation candidate among the appended rows
\* occurs in the Historico of a row of the returned Ledger, wherever the
\* candidate stands, the last appended row included.
C23_MergeLosesNoText ==
    (etapa = "retornou" /\ df_extrato # None) =>
        LET a == Val(anexado).rows
            l == Val(df_extrato).rows
        IN  \A i \in 1..Len(a) :
                Candidata(a[i]) =>
                    \E j \in 1..Len(l) : Contida(a[i].Historico, l[j].Historico)

\* ---------------------------------------------------------------------------
\* Order of the rows that share a date
\* ---------------------------------------------------------------------------

\* the order a stable ascending sort returns: rows with equal timestamps in
\* the order they had
OrdemEstavel(datas) ==
    CHOOSE o \in sort_values(datas) :
        \A i, j \in 1..Len(o) :
            (/\ i < j
             /\ datas[o[i]].ok /\ datas[o[j]].ok
             /\ ~Antes(datas[o[i]], datas[o[j]])) => o[i] < o[j]

====
